---- MODULE Spec2Model ----
(***************************************************************************)
(* Model of tools/nRF51_codegen.py: the generator that reads the interrupt *)
(* entries of a CMSIS SVD device description, builds the 32-slot table of  *)
(* peripheral interrupt names and writes the two C macros                  *)
(* PERIPHERAL_INTERRUPT_VECTORS and PERIPHERAL_INTERRUPT_HANDLERS to the   *)
(* header peripheral_interrupts.h.                                         *)
(*                                                                         *)
(* Strings are TLA+ strings; a file is the sequence of the lines that were *)
(* printed to it (print adds the newline).  The table is a function on     *)
(* 0..31, as the Python list is indexed from 0.                            *)
(***************************************************************************)
EXTENDS Integers, Sequences, FiniteSets, TLC

VARIABLES svd, pc, error, interrupts, p, k, visited, opened, file

vars == <<svd, pc, error, interrupts, p, k, visited, opened, file>>

(***************************************************************************)
(* Bounds of the descriptions that are explored.                           *)
(***************************************************************************)
MaxPeripherals == 2
MaxInterrupts == 2

\* interrupt numbers an entry may carry: below -32, negative, two ordinary
\* ones, above 31
Values == {-33, -1, 0, 1, 32}
\* interrupt names an entry may carry, the empty string included
Names == {"", "POWER_CLOCK", "RADIO"}
\* what the header holds before the run
PriorContent == <<"/* previous content */">>

(***************************************************************************)
(* Program constants.                                                      *)
(***************************************************************************)
NumSlots == 32

Slots == 0..(NumSlots - 1)

\* interrupts = [""] * 32
EmptyTable == [i \in Slots |-> ""]

(***************************************************************************)
(* The description handed over by the SVD parser.                          *)
(***************************************************************************)
Entries == [value : Values, name : Names]

RECURSIVE Sum(_, _)
Sum(f, n) == IF n = 0 THEN 0 ELSE f[n] + Sum(f, n - 1)

SeqsOfLen(S, n) == [1..n -> S]

\* the peripherals obtained by cutting the entry sequence es into m
\* consecutive pieces of the sizes sz[1], ..., sz[m]
Cut(es, sz, m) ==
    [j \in 1..m |->
        [interrupts |-> SubSeq(es, Sum(sz, j - 1) + 1, Sum(sz, j))]]

Devices ==
    UNION { UNION { { Cut(es, sz, m) :
                        sz \in {s \in [1..m -> 0..n] : Sum(s, m) = n} } :
                    es \in SeqsOfLen(Entries, n) } :
            <<n, m>> \in (0..MaxInterrupts) \X (0..MaxPeripherals) }

RECURSIVE Flatten(_)
Flatten(peripherals) ==
    IF peripherals = <<>> THEN <<>>
    ELSE Head(peripherals).interrupts \o Flatten(Tail(peripherals))

Resources ==
    {[status |-> "ok", peripherals |-> d] : d \in Devices}
    \cup {[status |-> s, peripherals |-> <<>>] : s \in {"missing", "malformed"}}

(***************************************************************************)
(* Python semantics used by the walk.                                      *)
(***************************************************************************)
\* list[v]: a negative index counts from the end; outside -len..len-1 the
\* access raises IndexError
IndexInRange(v) == v >= -NumSlots /\ v < NumSlots

ListIndex(v) == IF v < 0 THEN v + NumSlots ELSE v

\* truth value of a string: the empty string is false
Truthy(s) == s # ""

\* SVDParser.for_packaged_svd(...) and parser.get_device(): raise unless the
\* packaged resource is found and parses
LoadedIgnoresParseError(res) == res.status # "missing"

Loaded(res) == res.status = "ok"

(***************************************************************************)
(* get_peripheral_interrupts: the body of the inner loop, for one entry.   *)
(***************************************************************************)
VisitDropsOutOfRange(table, intr) ==
    IF ~IndexInRange(intr.value)
    THEN [status |-> "ok", interrupts |-> table]
    ELSE IF Truthy(table[ListIndex(intr.value)])
    THEN IF table[ListIndex(intr.value)] = intr.name
         THEN [status |-> "ok", interrupts |-> table]
         ELSE [status |-> "AssertionError", interrupts |-> table]
    ELSE [status |-> "ok",
          interrupts |-> [table EXCEPT ![ListIndex(intr.value)] = intr.name]]

Visit(table, intr) ==
    IF ~IndexInRange(intr.value)
    THEN [status |-> "IndexError", interrupts |-> table]
    ELSE IF Truthy(table[ListIndex(intr.value)])
    THEN IF table[ListIndex(intr.value)] = intr.name
         THEN [status |-> "ok", interrupts |-> table]
         ELSE [status |-> "AssertionError", interrupts |-> table]
    ELSE [status |-> "ok",
          interrupts |-> [table EXCEPT ![ListIndex(intr.value)] = intr.name]]

\* the whole walk over a sequence of entries, as a function
RECURSIVE Walk(_, _)
Walk(table, es) ==
    IF es = <<>> THEN [status |-> "ok", interrupts |-> table]
    ELSE IF Visit(table, Head(es)).status # "ok" THEN Visit(table, Head(es))
    ELSE Walk(Visit(table, Head(es)).interrupts, Tail(es))

get_peripheral_interrupts(peripherals) == Walk(EmptyTable, Flatten(peripherals))

(***************************************************************************)
(* dump_as_c_macro and the two line lists of dump_macros.                  *)
(***************************************************************************)
RECURSIVE Tabs(_)
Tabs(indent) == IF indent <= 0 THEN "" ELSE "\t" \o Tabs(indent - 1)

\* the lines printed by dump_as_c_macro(name, lines, outfile, indent)
RECURSIVE dump_as_c_macro_DefineInLoop(_, _, _)
dump_as_c_macro_DefineInLoop(name, lines, indent) ==
    IF lines = <<>> THEN <<>>
    ELSE <<"#define " \o name \o " \\",
           Tabs(indent) \o Head(lines) \o (IF Len(lines) > 1 THEN " \\" ELSE "")>>
         \o dump_as_c_macro_DefineInLoop(name, Tail(lines), indent)

dump_as_c_macro(name, lines, indent) ==
    <<"#define " \o name \o " \\">>
    \o [n \in 1..Len(lines) |->
          Tabs(indent) \o lines[n] \o (IF n < Len(lines) THEN " \\" ELSE "")]

MarkerLine == "/* Automatically generated by nRF51_codegen.py */"

ReservedEntry == "0, /* Reserved */"

VectorEntry(name) == name \o "_Handler,"

HandlerDecl(name) ==
    "void " \o name \o "_Handler(void) __attribute__ "
    \o "((weak, alias(\"Dummy_Handler\")));"

\* first loop of dump_macros: one line per slot
VectorLinesSkipEmpty(table) ==
    LET RECURSIVE Go(_)
        Go(i) == IF i >= NumSlots THEN <<>>
                 ELSE IF Truthy(table[i])
                 THEN <<VectorEntry(table[i])>> \o Go(i + 1)
                 ELSE Go(i + 1)
    IN Go(0)

VectorLines(table) ==
    [n \in 1..NumSlots |->
        IF Truthy(table[n - 1]) THEN VectorEntry(table[n - 1])
        ELSE ReservedEntry]

\* second loop of dump_macros: one line per slot holding a name
HandlerLinesOncePerName(table) ==
    LET RECURSIVE Go(_)
        Go(i) == IF i >= NumSlots THEN <<>>
                 ELSE IF Truthy(table[i])
                         /\ \A j \in 0..(i - 1) : table[j] # table[i]
                 THEN <<HandlerDecl(table[i])>> \o Go(i + 1)
                 ELSE Go(i + 1)
    IN Go(0)

HandlerLines(table) ==
    LET RECURSIVE Go(_)
        Go(i) == IF i >= NumSlots THEN <<>>
                 ELSE IF ~Truthy(table[i]) THEN Go(i + 1)
                 ELSE <<HandlerDecl(table[i])>> \o Go(i + 1)
    IN Go(0)

(***************************************************************************)
(* The run of main().                                                      *)
(***************************************************************************)
Init ==
    /\ svd \in Resources
    /\ pc = "load"
    /\ error = "none"
    /\ interrupts = EmptyTable
    /\ p = 1
    /\ k = 1
    /\ visited = <<>>
    /\ opened = FALSE
    /\ file = PriorContent

\* the parser finds and parses the packaged description
LoadDevice ==
    /\ pc = "load"
    /\ Loaded(svd)
    /\ pc' = "walk"
    /\ UNCHANGED <<svd, error, interrupts, p, k, visited, opened, file>>

\* the parser raises; nothing catches it
LoadFails ==
    /\ pc = "load"
    /\ ~Loaded(svd)
    /\ pc' = "failed"
    /\ error' = "SVDError"
    /\ UNCHANGED <<svd, interrupts, p, k, visited, opened, file>>

\* one pass of the inner loop
VisitInterrupt ==
    /\ pc = "walk"
    /\ p <= Len(svd.peripherals)
    /\ k <= Len(svd.peripherals[p].interrupts)
    /\ LET intr == svd.peripherals[p].interrupts[k]
           r == Visit(interrupts, intr)
       IN /\ visited' = Append(visited, intr)
          /\ interrupts' = r.interrupts
          /\ IF r.status = "ok"
             THEN /\ k' = k + 1
                  /\ UNCHANGED <<pc, error>>
             ELSE /\ pc' = "failed"
                  /\ error' = r.status
                  /\ UNCHANGED k
    /\ UNCHANGED <<svd, p, opened, file>>

\* the inner loop is exhausted: the outer loop takes the next peripheral
NextPeripheral ==
    /\ pc = "walk"
    /\ p <= Len(svd.peripherals)
    /\ k > Len(svd.peripherals[p].interrupts)
    /\ p' = p + 1
    /\ k' = 1
    /\ UNCHANGED <<svd, pc, error, interrupts, visited, opened, file>>

\* return interrupts
ReturnInterrupts ==
    /\ pc = "walk"
    /\ p > Len(svd.peripherals)
    /\ pc' = "open"
    /\ UNCHANGED <<svd, error, interrupts, p, k, visited, opened, file>>

\* open(path, "w") truncates the header
OpenOutfile ==
    /\ pc = "open"
    /\ opened' = TRUE
    /\ file' = <<>>
    /\ pc' = "marker"
    /\ UNCHANGED <<svd, error, interrupts, p, k, visited>>

WriteMarker ==
    /\ pc = "marker"
    /\ file' = Append(file, MarkerLine)
    /\ pc' = "vectors"
    /\ UNCHANGED <<svd, error, interrupts, p, k, visited, opened>>

DumpVectors ==
    /\ pc = "vectors"
    /\ file' = file \o dump_as_c_macro("PERIPHERAL_INTERRUPT_VECTORS",
                                       VectorLines(interrupts), 1)
    /\ pc' = "handlers"
    /\ UNCHANGED <<svd, error, interrupts, p, k, visited, opened>>

DumpHandlers ==
    /\ pc = "handlers"
    /\ file' = file \o dump_as_c_macro("PERIPHERAL_INTERRUPT_HANDLERS",
                                       HandlerLines(interrupts), 0)
    /\ pc' = "done"
    /\ UNCHANGED <<svd, error, interrupts, p, k, visited, opened>>

Next ==
    \/ LoadDevice
    \/ LoadFails
    \/ VisitInterrupt
    \/ NextPeripheral
    \/ ReturnInterrupts
    \/ OpenOutfile
    \/ WriteMarker
    \/ DumpVectors
    \/ DumpHandlers

Spec == Init /\ [][Next]_vars

TypeOK ==
    /\ svd \in Resources
    /\ pc \in {"load", "walk", "open", "marker", "vectors", "handlers",
               "done", "failed"}
    /\ error \in {"none", "SVDError", "IndexError", "AssertionError"}
    /\ DOMAIN interrupts = Slots
    /\ opened \in BOOLEAN

(***************************************************************************)
(* Reading the run and the header back.                                    *)
(***************************************************************************)
StartsWith(s, pre) == Len(s) >= Len(pre) /\ SubSeq(s, 1, Len(pre)) = pre

EndsWith(s, suf) ==
    Len(s) >= Len(suf) /\ SubSeq(s, Len(s) - Len(suf) + 1, Len(s)) = suf

Contains(s, sub) ==
    \E i \in 1..(Len(s) - Len(sub) + 1) : SubSeq(s, i, i + Len(sub) - 1) = sub

\* a printed body line without its indentation and its continuation
BodyText(line) ==
    LET a == IF StartsWith(line, "\t") THEN 2 ELSE 1
        b == IF EndsWith(line, " \\") THEN Len(line) - 2 ELSE Len(line)
    IN SubSeq(line, a, b)

\* what follows the last comma of s
AfterLastComma(s) ==
    LET c == {i \in 1..Len(s) : SubSeq(s, i, i) = ","}
        last == CHOOSE i \in c : \A j \in c : j <= i
    IN SubSeq(s, last + 1, Len(s))

DefineIdx == {i \in 1..Len(file) : StartsWith(file[i], "#define")}

\* the index of the last line of the macro definition that starts on line d
MacroEnd(d) ==
    IF \E e \in DefineIdx : e > d
    THEN (CHOOSE e \in DefineIdx : e > d /\ \A f \in DefineIdx : f > d => e <= f) - 1
    ELSE Len(file)

\* the body lines of the macro definition called name, <<>> if there is none
MacroBody(name) ==
    LET ds == {d \in DefineIdx : file[d] = "#define " \o name \o " \\"}
    IN IF ds = {} THEN <<>>
       ELSE LET d == CHOOSE x \in ds : TRUE
            IN SubSeq(file, d + 1, MacroEnd(d))

VectorBody == MacroBody("PERIPHERAL_INTERRUPT_VECTORS")

HandlerBody == MacroBody("PERIPHERAL_INTERRUPT_HANDLERS")

Count(seq, x) == Cardinality({i \in 1..Len(seq) : BodyText(seq[i]) = x})

AllEntries == Flatten(svd.peripherals)

\* the names that the entries of the description declare for number i
Declared(i) ==
    {AllEntries[n].name : n \in {m \in 1..Len(AllEntries) : AllEntries[m].value = i}}

RealNames == Names \ {""}

Generated == pc \in {"handlers", "done"}

BuiltTable == pc \in {"open", "marker", "vectors", "handlers", "done"}

Untouched == ~opened /\ file = PriorContent

Orderings(es) ==
    {[i \in 1..Len(es) |-> es[q[i]]] :
        q \in {f \in [1..Len(es) -> 1..Len(es)] :
                 \A a, b \in 1..Len(es) : f[a] = f[b] => a = b}}

(***************************************************************************)
(* C1: if two entries declare the same interrupt number with different     *)
(* names, the run aborts in get_peripheral_interrupts: it never gets to    *)
(* open the header, whose content stays what it was.                       *)
(***************************************************************************)
C1_ConflictAborts ==
    (/\ svd.status = "ok"
     /\ \E a, b \in 1..Len(AllEntries) :
           /\ AllEntries[a].value = AllEntries[b].value
           /\ AllEntries[a].name # AllEntries[b].name)
    => (~BuiltTable /\ Untouched)

(***************************************************************************)
(* C2: after a successful generation the body of the                       *)
(* PERIPHERAL_INTERRUPT_VECTORS macro has exactly 32 lines, every one      *)
(* holds an entry closed by a comma (followed by nothing or by a comment), *)
(* and body line i is the entry of slot i of the table.                    *)
(***************************************************************************)
C2_VectorTable32 ==
    Generated =>
        /\ Len(VectorBody) = 32
        /\ \A n \in 1..Len(VectorBody) :
              LET e == BodyText(VectorBody[n])
              IN /\ Contains(e, ",")
                 /\ \/ AfterLastComma(e) = ""
                    \/ /\ StartsWith(AfterLastComma(e), " /*")
                       /\ EndsWith(AfterLastComma(e), "*/")
                 /\ n - 1 \in Slots
                 /\ e = IF interrupts[n - 1] = "" THEN "0, /* Reserved */"
                        ELSE interrupts[n - 1] \o "_Handler,"

C2_Witness ==
    /\ pc = "done"
    /\ Len(visited) >= 2
    /\ \E i, j \in Slots : interrupts[i] # "" /\ interrupts[j] = ""

(***************************************************************************)
(* C3: in the vector table, entry i is the reserved marker when no entry   *)
(* of the description declares a handler name for interrupt number i, and  *)
(* is N_Handler, when some entry declares the name N for i.                *)
(***************************************************************************)
C3_EntryPerDeclaration ==
    (Generated /\ Len(VectorBody) = NumSlots) =>
        \A i \in Slots :
            /\ (Declared(i) \cap RealNames = {})
                  => BodyText(VectorBody[i + 1]) = "0, /* Reserved */"
            /\ \A N \in Declared(i) \cap RealNames :
                  BodyText(VectorBody[i + 1]) = N \o "_Handler,"

(***************************************************************************)
(* C4: every handler name held by some slot has its weak-alias line        *)
(* exactly once in the header, and there is no weak-alias line for an      *)
(* empty slot.                                                             *)
(***************************************************************************)
C4_OncePerName ==
    pc = "done" =>
        /\ \A N \in RealNames :
              (\E i \in Slots : interrupts[i] = N)
                 => Count(file, HandlerDecl(N)) = 1
        /\ Count(file, HandlerDecl("")) = 0

(***************************************************************************)
(* C4, amended: there is one weak-alias line per slot that holds a name:   *)
(* the line of N_Handler occurs as many times as there are slots holding   *)
(* N, the body of PERIPHERAL_INTERRUPT_HANDLERS has as many lines as there *)
(* are non-empty slots, and there is no line for an empty slot.            *)
(***************************************************************************)
C4_OncePerSlot ==
    pc = "done" =>
        /\ \A N \in RealNames :
              Count(file, HandlerDecl(N))
                 = Cardinality({i \in Slots : interrupts[i] = N})
        /\ Len(HandlerBody) = Cardinality({i \in Slots : interrupts[i] # ""})
        /\ Count(file, HandlerDecl("")) = 0

C4_Witness ==
    /\ pc = "done"
    /\ \E i, j \in Slots : i # j /\ interrupts[i] # "" /\ interrupts[i] = interrupts[j]

(***************************************************************************)
(* C5: the header is written in this order: the marker line, the whole     *)
(* PERIPHERAL_INTERRUPT_VECTORS definition, the whole                      *)
(* PERIPHERAL_INTERRUPT_HANDLERS definition, and nothing else; it holds    *)
(* exactly two #define lines and the marker comes before both.             *)
(***************************************************************************)
C5_WriteOrder ==
    /\ pc = "marker" => file = <<>>
    /\ pc = "vectors" => file = <<MarkerLine>>
    /\ pc = "handlers" =>
          /\ Len(file) = 2 + NumSlots
          /\ file[1] = MarkerLine
          /\ DefineIdx = {2}
          /\ file[2] = "#define PERIPHERAL_INTERRUPT_VECTORS \\"
    /\ pc = "done" =>
          /\ Len(file) = 3 + NumSlots
                           + Cardinality({i \in Slots : interrupts[i] # ""})
          /\ file[1] = MarkerLine
          /\ \A n \in 2..Len(file) : file[n] # MarkerLine
          /\ DefineIdx = {2, 3 + NumSlots}
          /\ file[2] = "#define PERIPHERAL_INTERRUPT_VECTORS \\"
          /\ file[3 + NumSlots] = "#define PERIPHERAL_INTERRUPT_HANDLERS \\"
          /\ \A n \in 3..(2 + NumSlots) : StartsWith(file[n], "\t")
          /\ \A n \in (4 + NumSlots)..Len(file) : StartsWith(file[n], "void ")

C5_Witness ==
    /\ pc = "done"
    /\ \E i \in Slots : interrupts[i] # ""

(***************************************************************************)
(* C6: when the description cannot be found or parsed the run fails at     *)
(* once and for good, and the header is neither opened nor written; the    *)
(* header is opened only after the load and the whole walk have finished.  *)
(***************************************************************************)
C6_LoadFailureLeavesHeader ==
    /\ svd.status # "ok" =>
          /\ pc \in {"load", "failed"}
          /\ Untouched
          /\ interrupts = EmptyTable
    /\ (pc = "failed" /\ error = "SVDError") => svd.status # "ok"
    /\ pc = "failed" => ~ENABLED Next
    /\ opened =>
          /\ svd.status = "ok"
          /\ p > Len(svd.peripherals)
          /\ visited = AllEntries

C6_Witness ==
    /\ pc = "failed"
    /\ error = "SVDError"
    /\ svd.status \in {"missing", "malformed"}
    /\ Untouched

(***************************************************************************)
(* C7: during the walk the table always has 32 slots, a slot that holds a  *)
(* name is never given another value, and an entry changes at most the     *)
(* slot of its own interrupt number; after a successful walk slot i holds  *)
(* the name N exactly when some entry declares N for i, and is empty       *)
(* exactly when no entry declares a name for i.                            *)
(***************************************************************************)
C7_Step ==
    /\ \A i \in Slots : interrupts[i] # "" => interrupts'[i] = interrupts[i]
    /\ visited' # visited =>
          \A i \in Slots :
              i # visited'[Len(visited')].value => interrupts'[i] = interrupts[i]

C7_Final ==
    BuiltTable =>
        \A i \in Slots :
            /\ \A N \in RealNames : interrupts[i] = N <=> N \in Declared(i)
            /\ interrupts[i] = "" <=> Declared(i) \cap RealNames = {}

C7_TableBuilder ==
    /\ [](DOMAIN interrupts = Slots)
    /\ [][C7_Step]_vars
    /\ []C7_Final

(***************************************************************************)
(* C8: the outcome of the walk is the same for every order of the entries: *)
(* every order fails, or every order succeeds with the same table.         *)
(***************************************************************************)
C8_OrderIndependent ==
    (svd.status = "ok" /\ (BuiltTable \/ pc = "failed")) =>
        \A es \in Orderings(AllEntries) :
            IF pc = "failed"
            THEN Walk(EmptyTable, es).status # "ok"
            ELSE /\ Walk(EmptyTable, es).status = "ok"
                 /\ Walk(EmptyTable, es).interrupts = interrupts

(***************************************************************************)
(* C9: every macro definition in the header is terminated: its #define     *)
(* line and its body lines but the last end with a backslash, and the last *)
(* line written for it does not.                                           *)
(***************************************************************************)
C9_MacroTerminated ==
    Generated =>
        \A d \in DefineIdx :
            /\ EndsWith(file[d], "\\")
            /\ \A n \in (d + 1)..(MacroEnd(d) - 1) : EndsWith(file[n], "\\")
            /\ ~EndsWith(file[MacroEnd(d)], "\\")

(***************************************************************************)
(* C10: an entry whose number is above 31 makes the walk fail: it is not   *)
(* stored, the table keeps its 32 slots, and the header is neither opened  *)
(* nor written.                                                            *)
(***************************************************************************)
C10_AboveRangeAborts ==
    /\ DOMAIN interrupts = Slots
    /\ \A n \in 1..Len(visited) :
          visited[n].value > 31 =>
              /\ n = Len(visited)
              /\ pc = "failed"
              /\ error = "IndexError"
              /\ interrupts = Walk(EmptyTable, SubSeq(visited, 1, n - 1)).interrupts
              /\ Untouched

C10_Witness ==
    /\ pc = "failed"
    /\ error = "IndexError"
    /\ Len(visited) >= 2
    /\ visited[Len(visited)].value > 31
    /\ \E i \in Slots : interrupts[i] # ""
====
